---- MODULE Spec2Model ----
(***************************************************************************)
(* Model of ECNUShellAssistant (src/ecnu_shell_assistant.py): the rate     *)
(* limiter, the main loop with the translator and the confirmation gate,   *)
(* and the command executor with its child process and pipes.              *)
(*                                                                         *)
(* Three specifications share the module:                                  *)
(*   SpecRL    the rate limiter driven directly (check, record, clock)     *)
(*   SpecMain  the interactive main loop                                   *)
(*   SpecExec  one call of execute_shell_command, step by step             *)
(***************************************************************************)
EXTENDS Integers, Sequences, FiniteSets, TLC

VARIABLES
  now,                  \* time.time(), in whole seconds
  requests,             \* self.rate_limit[requests]
  rate_limit_enabled,   \* self.rate_limit_enabled
  rpm, rph, rpd,        \* self.rate_limit[rpm], [rph], [rpd]
  check_ret,            \* return value of the latest _check_rate_limit ("none" before any)
  recorded,             \* every timestamp _record_request ever appended (never pruned)
  denied,               \* some _check_rate_limit has returned False
  advances,             \* number of clock advances so far
  pc,                   \* position of the main loop: "prompt", "confirm", "answered", "teach", "exited"
  history,              \* self.history, the conversation
  command_history,      \* self.command_history
  max_history_size,     \* self.max_history_size
  api_key,              \* self.api_key
  libs,                 \* which client libraries the interpreter can import
  shell_command,        \* the translated command the main loop holds
  answer,               \* the latest answer to a confirmation question ("none" before any)
  dispatched,           \* number of outbound LLM calls dispatched so far
  exec_calls,           \* number of execute_shell_command calls so far
  turns,                \* number of requests the main loop has read so far
  ex_pc,                \* position inside execute_shell_command
  os_name,              \* os.name: "posix" or "nt"
  is_sudo_command,      \* the command contains sudo and does not start with #
  timeout,              \* config command_timeout, in seconds
  elapsed,              \* time.time() - start_time (time since the call began, for sudo)
  child,                \* the process the call reads from
  orphan,               \* the process of the first Popen once the second replaced it
  out_pipe, err_pipe,   \* lines written by the child and not yet read
  stdout_lines,         \* stdout_lines
  stderr_lines,         \* stderr_lines
  readable,             \* the list the select loop polls
  result,               \* what the call returned
  path,                 \* how the call ended
  log_entries,          \* entries _log_command_output appended
  advisor_calls,        \* calls of _get_error_solution_from_llm made by the call
  written_out,          \* every line the child wrote to its stdout
  written_err,          \* every line the child wrote to its stderr
  overran,              \* the child was still running after the timeout had passed
  sudo_end,             \* how the command ends when os.system runs it
  model,                \* self.model
  api_base_url,         \* self.api_base_url
  authorization,        \* self.headers["Authorization"]
  config,               \* self.config: its entries model, api_key and api_keys
  saved_config,         \* the configuration file as last written or found
  environ,              \* os.environ: the variables that can hold a key
  key_file,             \* the content of the single-key file, "" when there is none
  call                  \* the latest call of a method made directly on the session, with its result

rlVars == <<now, requests, rate_limit_enabled, rpm, rph, rpd, check_ret, recorded,
            denied, advances>>

mainVars == <<pc, history, command_history, max_history_size, api_key, libs,
              shell_command, answer, dispatched, exec_calls, turns>>

exVars == <<ex_pc, os_name, is_sudo_command, timeout, elapsed, child, orphan, out_pipe,
            err_pipe, stdout_lines, stderr_lines, readable, result, path, log_entries,
            advisor_calls, written_out, written_err, overran, sudo_end>>

regVars == <<model, api_base_url, authorization, config, saved_config, environ, key_file>>

vars == <<rlVars, mainVars, exVars, regVars, call>>

(***************************************************************************)
(* Bounds of the model.                                                    *)
(***************************************************************************)
MaxRecords == 3
MaxAdvances == 4

\* The amounts by which the clock advances between operations: they sum to
\* the window lengths (1 + 59 = 60, + 3540 = 3600, + 82800 = 86400), so
\* every window boundary is met exactly and one second short.
ClockSteps == {1, 59, 3540, 82800}

\* Configured limits (config keys rate_limit_rpm / _rph / _rpd).
RpmChoices == {1, 2}
RphChoices == {2}
RpdChoices == {3}

(***************************************************************************)
(* Rate limiter: _check_rate_limit and _record_request.                    *)
(***************************************************************************)
MinuteWindow == 60
HourWindow == 3600
DayWindow == 86400

\* [t for t in seq if current_time - t < window]
RECURSIVE Younger(_, _, _)
Younger(seq, current_time, window) ==
  IF seq = <<>> THEN <<>>
  ELSE LET rest == Younger(Tail(seq), current_time, window)
       IN IF current_time - Head(seq) < window THEN <<Head(seq)>> \o rest ELSE rest

\* sum(1 for t in seq if current_time - t < window)
CountYounger(seq, current_time, window) == Len(Younger(seq, current_time, window))

\* A check that leaves the list as it found it.
Unpruned(reqs, enabled, current_time) == reqs

\* The list _check_rate_limit leaves in rate_limit[requests].
PrunedRequests(reqs, enabled, current_time) ==
  IF ~enabled THEN reqs ELSE Younger(reqs, current_time, DayWindow)

\* A limit that is only reached by exceeding it.
LimitExceeded(count, limit) == count > limit

\* A limit is reached when the count is at or over it.
LimitReached(count, limit) == count >= limit

\* A check that applies the limits whether or not the limiter is enabled.
CheckSwitchIgnored(reqs, enabled, current_time, lim_rpm, lim_rph, lim_rpd) ==
  /\ ~LimitReached(CountYounger(reqs, current_time, MinuteWindow), lim_rpm)
  /\ ~LimitReached(CountYounger(reqs, current_time, HourWindow), lim_rph)
  /\ ~LimitReached(CountYounger(reqs, current_time, DayWindow), lim_rpd)

\* The value _check_rate_limit returns.
CheckRateLimit(reqs, enabled, current_time, lim_rpm, lim_rph, lim_rpd) ==
  IF ~enabled THEN TRUE
  ELSE LET kept == PrunedRequests(reqs, enabled, current_time)
           requests_last_minute == CountYounger(kept, current_time, MinuteWindow)
           requests_last_hour == CountYounger(kept, current_time, HourWindow)
           requests_last_day == Len(kept)
       IN IF LimitReached(requests_last_minute, lim_rpm) THEN FALSE
          ELSE IF LimitReached(requests_last_hour, lim_rph) THEN FALSE
          ELSE IF LimitReached(requests_last_day, lim_rpd) THEN FALSE
          ELSE TRUE

BoolStr(b) == IF b THEN "True" ELSE "False"

\* _check_rate_limit called on its own.
RLCheck ==
  LET ret == CheckRateLimit(requests, rate_limit_enabled, now, rpm, rph, rpd)
  IN /\ requests' = PrunedRequests(requests, rate_limit_enabled, now)
     /\ check_ret' = BoolStr(ret)
     /\ denied' = (denied \/ ~ret)
     /\ UNCHANGED <<now, rate_limit_enabled, rpm, rph, rpd, recorded, advances, mainVars, exVars, regVars, call>>

\* _record_request called on its own.
RLRecord ==
  /\ Len(recorded) < MaxRecords
  /\ requests' = Append(requests, now)
  /\ recorded' = Append(recorded, now)
  /\ check_ret' = "none"
  /\ UNCHANGED <<now, rate_limit_enabled, rpm, rph, rpd, denied, advances, mainVars, exVars, regVars, call>>

\* The clock moves on.
RLAdvance ==
  /\ advances < MaxAdvances
  /\ \E d \in ClockSteps : now' = now + d
  /\ advances' = advances + 1
  /\ check_ret' = "none"
  /\ UNCHANGED <<requests, rate_limit_enabled, rpm, rph, rpd, recorded, denied, mainVars, exVars, regVars, call>>

\* The commands rate_limit on and rate_limit off of the main loop.
RLToggle ==
  /\ rate_limit_enabled' = ~rate_limit_enabled
  /\ check_ret' = "none"
  /\ UNCHANGED <<now, requests, rpm, rph, rpd, recorded, denied, advances, mainVars, exVars, regVars, call>>

RLInit ==
  /\ now = 0
  /\ requests = <<>>
  /\ rate_limit_enabled = TRUE
  /\ rpm \in RpmChoices
  /\ rph \in RphChoices
  /\ rpd \in RpdChoices
  /\ check_ret = "none"
  /\ recorded = <<>>
  /\ denied = FALSE
  /\ advances = 0

\* The session as __init__ leaves it.
SystemPrompt == [role |-> "system", content |-> <<"S">>]

MainIdle ==
  /\ pc = "prompt"
  /\ history = <<SystemPrompt>>
  /\ command_history = <<>>
  /\ max_history_size = 1
  /\ api_key = ""
  /\ libs = "all"
  /\ shell_command = <<>>
  /\ answer = "none"
  /\ dispatched = 0
  /\ exec_calls = 0
  /\ turns = 0

NoChild == [state |-> "none", out_open |-> FALSE, err_open |-> FALSE, rc |-> 0]
NoEnd == [how |-> "none", n |-> 0]
NoResult == [kind |-> "none", rc |-> 0, out |-> <<>>, err |-> <<>>]

\* No execute_shell_command call has begun.
ExecIdle ==
  /\ ex_pc = "idle"
  /\ elapsed = 0
  /\ child = NoChild
  /\ orphan = "none"
  /\ out_pipe = <<>>
  /\ err_pipe = <<>>
  /\ stdout_lines = <<>>
  /\ stderr_lines = <<>>
  /\ readable = {}
  /\ result = NoResult
  /\ path = "none"
  /\ log_entries = <<>>
  /\ advisor_calls = 0
  /\ written_out = <<>>
  /\ written_err = <<>>
  /\ overran = FALSE

\* The names under which a key can be stored: provider names and names of
\* environment variables.
KeyNames == {"modelscope", "ecnu", "MODEL_SCOPE_API", "ECNU_API_KEY"}

\* The model and the credentials are not looked at.
RegUnused ==
  /\ model = "GLM-4.6"
  /\ api_base_url = "https://api-inference.modelscope.cn/v1"
  /\ authorization = <<>>
  /\ config = [model |-> "Qwen/Qwen3-32B", api_key |-> "", api_keys |-> [k \in KeyNames |-> ""]]
  /\ saved_config = config
  /\ environ = [k \in {"MODEL_SCOPE_API", "ECNU_API_KEY"} |-> ""]
  /\ key_file = ""

ExecUnused ==
  /\ ExecIdle
  /\ os_name = "posix"
  /\ is_sudo_command = FALSE
  /\ timeout = 60
  /\ sudo_end = NoEnd

\* No method has been called directly.
NoCall == [op |-> "none"]

InitRL == RLInit /\ MainIdle /\ ExecUnused /\ RegUnused /\ call = NoCall

NextRL == RLCheck \/ RLRecord \/ RLAdvance \/ RLToggle

SpecRL == InitRL /\ [][NextRL]_vars

(***************************************************************************)
(* Text.  A Python str is modelled as a sequence of characters, each a     *)
(* one-character string; "bq" stands for the backquote character, "ming"   *)
(* and "ling" for the two characters of the Chinese label for "command".   *)
(***************************************************************************)
Upper == <<"A","B","C","D","E","F","G","H","I","J","K","L","M",
           "N","O","P","Q","R","S","T","U","V","W","X","Y","Z">>
LowerLetters == <<"a","b","c","d","e","f","g","h","i","j","k","l","m",
                  "n","o","p","q","r","s","t","u","v","w","x","y","z">>

\* str.lower() on one character
LowerChar(c) ==
  IF \E i \in 1..26 : Upper[i] = c
  THEN LowerLetters[CHOOSE i \in 1..26 : Upper[i] = c]
  ELSE c

\* str.lower()
Lower(s) == [i \in 1..Len(s) |-> LowerChar(s[i])]

\* Characters str.strip() and str.split() treat as whitespace.
IsSpace(c) == c \in {" ", "\n", "\t", "\r"}

\* s[i:] begins with p (i is 1-based)
IsAt(s, p, i) ==
  /\ i >= 1
  /\ i + Len(p) - 1 <= Len(s)
  /\ \A k \in 1..Len(p) : s[i + k - 1] = p[k]

\* s.startswith(p)
StartsWith(s, p) == IsAt(s, p, 1)

\* p in s
Contains(s, p) == \E i \in 1..(Len(s) + 1) : IsAt(s, p, i)

\* re.search(a + '.*' + b, s): a, later b, with no newline in between
SearchGap(s, a, b) ==
  \E i \in 1..(Len(s) + 1), j \in 1..(Len(s) + 1) :
    /\ IsAt(s, a, i)
    /\ IsAt(s, b, j)
    /\ j >= i + Len(a)
    /\ \A k \in (i + Len(a))..(j - 1) : s[k] # "\n"

\* s.lstrip(), s.rstrip(), s.strip()
RECURSIVE LStrip(_)
LStrip(s) == IF s # <<>> /\ IsSpace(Head(s)) THEN LStrip(Tail(s)) ELSE s
RECURSIVE RStrip(_)
RStrip(s) ==
  IF s # <<>> /\ IsSpace(s[Len(s)]) THEN RStrip(SubSeq(s, 1, Len(s) - 1)) ELSE s
Strip(s) == RStrip(LStrip(s))

\* s[n:] for n >= 0
Drop(s, n) == SubSeq(s, n + 1, Len(s))

\* s.split(newline): the lines of s, as a sequence of strings
RECURSIVE SplitLines(_)
SplitLines(s) ==
  IF \E i \in 1..Len(s) : s[i] = "\n"
  THEN LET i == CHOOSE k \in 1..Len(s) : s[k] = "\n" /\ \A m \in 1..(k - 1) : s[m] # "\n"
       IN <<SubSeq(s, 1, i - 1)>> \o SplitLines(Drop(s, i))
  ELSE <<s>>

\* sep.join(parts)
RECURSIVE Join(_, _)
Join(parts, sep) ==
  IF parts = <<>> THEN <<>>
  ELSE IF Len(parts) = 1 THEN parts[1]
  ELSE parts[1] \o sep \o Join(Tail(parts), sep)

\* s.split(): the maximal runs of non-whitespace characters
RECURSIVE SplitWords(_)
SplitWords(s) ==
  LET t == LStrip(s)
  IN IF t = <<>> THEN <<>>
     ELSE LET n == IF \E i \in 1..Len(t) : IsSpace(t[i])
                   THEN (CHOOSE k \in 1..Len(t) :
                           IsSpace(t[k]) /\ \A m \in 1..(k - 1) : ~IsSpace(t[m])) - 1
                   ELSE Len(t)
          IN <<SubSeq(t, 1, n)>> \o SplitWords(Drop(t, n))

\* [x for x in seq if keep(x)]
RECURSIVE SelectNotFence(_)
Fence == <<"bq", "bq", "bq">>
SelectNotFence(lines) ==
  IF lines = <<>> THEN <<>>
  ELSE IF StartsWith(Head(lines), Fence) THEN SelectNotFence(Tail(lines))
  ELSE <<Head(lines)>> \o SelectNotFence(Tail(lines))

(***************************************************************************)
(* _clean_command                                                          *)
(***************************************************************************)
\* The prefix labels, in the order the code tries them.
Prefixes == << <<"ming", "ling", ":", " ">>,
               <<"b", "a", "s", "h", ":", " ">>,
               <<"s", "h", "e", "l", "l", ":", " ">>,
               <<"$", " ">> >>

\* A command that starts with a code fence loses its first line and every fence line.
StripFence(command) ==
  IF StartsWith(command, Fence)
  THEN Join(SelectNotFence(Tail(SplitLines(command))), <<"\n">>)
  ELSE command

\* for prefix in prefixes: if command.startswith(prefix): cut it; break
StripPrefix(command) ==
  IF \E i \in 1..Len(Prefixes) : StartsWith(command, Prefixes[i])
  THEN LET i == CHOOSE k \in 1..Len(Prefixes) :
                  /\ StartsWith(command, Prefixes[k])
                  /\ \A m \in 1..(k - 1) : ~StartsWith(command, Prefixes[m])
       IN Drop(command, Len(Prefixes[i]))
  ELSE command

\* command.split() joined by single spaces
CollapseSpace(command) == Join(SplitWords(command), <<" ">>)

clean_command(command) == Strip(CollapseSpace(StripPrefix(StripFence(Strip(command)))))

(***************************************************************************)
(* _is_dangerous_command                                                   *)
(***************************************************************************)
\* A classifier that knows the recursive forced delete only.
OnlyDeletes(command) == SearchGap(command, <<"r","m">>, <<"-","r","f">>)

is_dangerous_command(command) ==
  \/ SearchGap(command, <<"r","m">>, <<"-","r","f">>)
  \/ Contains(command, <<"m","k","f","s",".">>)
  \/ SearchGap(command, <<"d","d">>, <<"o","f","=">>)
  \/ SearchGap(command, <<"c","h","m","o","d">>, <<"7","7","7">>)
  \/ SearchGap(command, <<">">>, <<"/","e","t","c","/">>)
  \/ SearchGap(command, <<"|","|">>, <<"r","m">>)
  \/ Contains(command, <<"s","h","u","t","d","o","w","n">>)
  \/ Contains(command, <<"r","e","b","o","o","t">>)
  \/ Contains(command, <<"p","o","w","e","r","o","f","f">>)

(***************************************************************************)
(* The session: natural_language_to_shell, _get_error_solution_from_llm,   *)
(* the explain operations and the main loop.                               *)
(***************************************************************************)
MinKeyLen == 10
RetryDelay == 2
SafetyDelay == 1
TooManyRequestsDelay == 10

\* Bounds of the session model.
MaxTurns == 2
MaxMainAdvances == 1

\* Configured caps of the conversation (config key max_history_size).
CapChoices == {1, 2, 3}

\* Inputs of the session model.
NLInputs == { <<" ","l","i","s","t"," ">>, <<" ">> }
Responses == {
  <<"bq","bq","bq","b","a","s","h","\n","l","s"," ","-","l","a","\n","bq","bq","bq">>,
  <<"$"," ","r","m"," ","-","r","f"," ","x">>,
  <<"bq","bq","bq">> }
Answers == { <<"y">>, <<"Y">>, <<"y","e","s">>, <<"Y","e","S">>, <<"n">> }
ApiKeys == {"", "short-key", "sk-valid-key-0001"}
LibChoices == {"all", "no_anthropic", "no_openai"}
MainClockSteps == {57}
TranslateNet == {"response", "error", "error429"}
ExecOutcomes == {"exit0", "nonzero", "timeout", "interrupted", "launch_error"}
PostOutcomes == {"response", "exception"}

\* The rate limiter and the call counters, threaded through one handler.
Limiter == [now |-> now, requests |-> requests, recorded |-> recorded,
            check_ret |-> check_ret, dispatched |-> dispatched, checks |-> 0]

\* A check that counts itself as a request.
AfterCheckRecording(l) ==
  LET ret == CheckRateLimit(l.requests, rate_limit_enabled, l.now, rpm, rph, rpd)
  IN [l EXCEPT !.requests = Append(PrunedRequests(l.requests, rate_limit_enabled, l.now), l.now),
               !.check_ret = BoolStr(ret), !.checks = @ + 1]

\* _check_rate_limit on a limiter state: the pruned list and the return value
AfterCheck(l) ==
  LET ret == CheckRateLimit(l.requests, rate_limit_enabled, l.now, rpm, rph, rpd)
  IN [l EXCEPT !.requests = PrunedRequests(l.requests, rate_limit_enabled, l.now),
               !.check_ret = BoolStr(ret), !.checks = @ + 1]

\* _record_request
AfterRecord(l) ==
  [l EXCEPT !.requests = Append(l.requests, l.now),
            !.recorded = Append(l.recorded, l.now)]

\* time.sleep(d)
AfterSleep(l, d) == [l EXCEPT !.now = l.now + d]

\* one outbound call leaves the process
AfterDispatch(l) == [l EXCEPT !.dispatched = l.dispatched + 1]

\* if not self.api_key or len(self.api_key) < 10
KeyInvalid(key) == key = "" \/ Len(key) < MinKeyLen

\* seq[-k:] for k >= 0, as Python slices it (seq[-0:] is the whole list)
LastK(seq, k) ==
  IF k = 0 \/ k >= Len(seq) THEN seq ELSE SubSeq(seq, Len(seq) - k + 1, Len(seq))

\* The trim at the end of a successful natural_language_to_shell.
TrimInTranslate(h, cap) ==
  IF Len(h) > cap THEN <<h[1]>> \o LastK(h, cap - 1) ELSE h

\* The trim of the main loop after execute_shell_command.
TrimInMain(h, cap) ==
  IF Len(h) > cap THEN LastK(h, cap) ELSE h

\* A gate that checks again at once after a refusal.
GateWithoutWait(l) ==
  LET l1 == AfterCheck(l)
  IN IF l1.check_ret = "True" THEN l1 ELSE AfterCheck(l1)

\* The rate-limit gate of natural_language_to_shell: one check, and after a
\* refusal a wait and one more check.
TranslateGate(l) ==
  LET l1 == AfterCheck(l)
  IN IF l1.check_ret = "True" THEN l1 ELSE AfterCheck(AfterSleep(l1, RetryDelay))

\* The system message sent when the conversation holds no system entry.
DefaultSystemPrompt == [role |-> "system", content |-> <<"D">>]

\* The entries of h with the given role, in order.
WithRole(h, role) == SelectSeq(h, LAMBDA msg : msg.role = role)

\* A request that carries the whole conversation.
WholeHistory(h, nl) == h

\* The messages natural_language_to_shell sends: the first system entry of
\* the conversation, or the default one, and then the last user entry of the
\* conversation, or the input when there is none.
OutboundMessages(h, nl) ==
  LET systems == WithRole(h, "system")
      users == WithRole(h, "user")
  IN << IF systems # <<>> THEN Head(systems) ELSE DefaultSystemPrompt,
        IF users # <<>> THEN users[Len(users)]
        ELSE [role |-> "user", content |-> nl] >>

\* natural_language_to_shell(nl) with the provider answering net / resp:
\* the value returned ("None" or the command), the conversation and the
\* limiter it leaves, and the messages of the request it sent.
Translate(nl, net, resp) ==
  LET l0 == Limiter
      stripped == Strip(nl)
      h1 == Append(history, [role |-> "user", content |-> stripped])
      gate == TranslateGate(l0)
      l2 == AfterSleep(AfterRecord(gate), SafetyDelay)
      l3 == AfterDispatch(l2)
      cmd == clean_command(resp)
      h2 == Append(h1, [role |-> "assistant", content |-> cmd])
      msgs == OutboundMessages(h1, stripped)
  IN IF libs = "no_anthropic" THEN [ret |-> "None", h |-> history, l |-> l0, msgs |-> <<>>]
     ELSE IF stripped = <<>> THEN [ret |-> "None", h |-> history, l |-> l0, msgs |-> <<>>]
     ELSE IF KeyInvalid(api_key) THEN [ret |-> "None", h |-> h1, l |-> l0, msgs |-> <<>>]
     ELSE IF gate.check_ret = "False" THEN [ret |-> "None", h |-> h1, l |-> gate, msgs |-> <<>>]
     ELSE IF libs = "no_openai" THEN [ret |-> "None", h |-> h1, l |-> l2, msgs |-> <<>>]
     ELSE IF net = "error" THEN [ret |-> "None", h |-> h1, l |-> l3, msgs |-> msgs]
     ELSE IF net = "error429"
       THEN [ret |-> "None", h |-> h1, l |-> AfterSleep(l3, TooManyRequestsDelay),
             msgs |-> msgs]
     ELSE [ret |-> cmd, h |-> TrimInTranslate(h2, max_history_size), l |-> l3,
           msgs |-> msgs]

\* An advisor that sends its request whatever the check said.
AdviseUnchecked(l, post) ==
  LET l1 == AfterCheck(l)
  IN IF post = "exception" THEN AfterDispatch(l1) ELSE AfterRecord(AfterDispatch(l1))

\* _get_error_solution_from_llm with requests.post ending as post
Advise(l, post) ==
  LET l1 == AfterCheck(l)
      l2 == AfterDispatch(l1)
  IN IF l1.check_ret = "False" THEN l1
     ELSE IF api_key = "" THEN l1
     ELSE IF post = "exception" THEN l2
     ELSE AfterRecord(l2)

\* explain_shell_command and explain_natural_language: the call goes out
\* whenever the client library can be imported
Explain(l) == IF libs = "no_openai" THEN l ELSE AfterDispatch(l)

\* Whether execute_shell_command ends by calling _get_error_solution_from_llm
AdvisorAfter(outcome) == outcome \in {"nonzero", "launch_error"}

\* execute_shell_command seen from the session
Execute(l, outcome, post) == IF AdvisorAfter(outcome) THEN Advise(l, post) ELSE l

\* Consent that takes y or yes for any command.
AnyYes(command, ans) == Lower(ans) = <<"y">> \/ Lower(ans) = <<"y","e","s">>

\* The answer the main loop takes as consent to run command
Confirmed(command, ans) ==
  IF is_dangerous_command(command)
  THEN Lower(ans) = <<"y","e","s">>
  ELSE Lower(ans) = <<"y">>

SetLimiter(l) ==
  /\ now' = l.now
  /\ requests' = l.requests
  /\ recorded' = l.recorded
  /\ check_ret' = l.check_ret
  /\ dispatched' = l.dispatched

\* The main loop reads a request and translates it.
MainTranslate ==
  /\ pc = "prompt"
  /\ turns < MaxTurns
  /\ turns' = turns + 1
  /\ \E nl \in NLInputs, net \in TranslateNet, resp \in Responses :
       LET t == Translate(nl, net, resp)
       IN /\ history' = t.h
          /\ SetLimiter(t.l)
          /\ IF t.ret # "None" /\ t.ret # <<>>
             THEN pc' = "confirm" /\ shell_command' = t.ret
             ELSE pc' = "prompt" /\ shell_command' = <<>>
  /\ UNCHANGED <<rate_limit_enabled, rpm, rph, rpd, advances, denied, command_history,
                 max_history_size, api_key, libs, exec_calls, answer, exVars, regVars, call>>

\* The main loop reads the answer to its confirmation question.
MainAnswer ==
  /\ pc = "confirm"
  /\ \E ans \in Answers : answer' = ans
  /\ pc' = "answered"
  /\ UNCHANGED <<rlVars, history, command_history, max_history_size, api_key, libs,
                 shell_command, dispatched, exec_calls, turns, exVars, regVars, call>>

\* With the answer read: on consent the main loop runs the command and trims
\* the conversation, otherwise it goes back to the prompt.
MainRun ==
  /\ pc = "answered"
  /\ IF Confirmed(shell_command, answer)
     THEN \E outcome \in ExecOutcomes, post \in PostOutcomes :
            /\ command_history' = Append(command_history, shell_command)
            /\ exec_calls' = exec_calls + 1
            /\ SetLimiter(Execute(Limiter, outcome, post))
            /\ history' = TrimInMain(history, max_history_size)
     ELSE UNCHANGED <<command_history, exec_calls, now, requests, recorded,
                      check_ret, dispatched, history>>
  /\ pc' = "prompt"
  /\ shell_command' = <<>>
  /\ answer' = "none"
  /\ UNCHANGED <<rate_limit_enabled, rpm, rph, rpd, advances, denied,
                 max_history_size, api_key, libs, turns, exVars, regVars, call>>

\* explain <text> at the main prompt: explain_natural_language
MainExplain ==
  /\ pc = "prompt"
  /\ turns < MaxTurns
  /\ turns' = turns + 1
  /\ SetLimiter(Explain(Limiter))
  /\ UNCHANGED <<rate_limit_enabled, rpm, rph, rpd, advances, denied, pc, history,
                 command_history, max_history_size, api_key, libs, shell_command,
                 answer, exec_calls, exVars, regVars, call>>

\* teach at the main prompt enters the teaching loop; exit leaves it
MainTeach ==
  /\ pc \in {"prompt", "teach"}
  /\ pc' = IF pc = "prompt" THEN "teach" ELSE "prompt"
  /\ UNCHANGED <<rlVars, history, command_history, max_history_size, api_key, libs,
                 shell_command, answer, dispatched, exec_calls, turns, exVars, regVars, call>>

\* In the teaching loop: explain <text> or a command to be explained
TeachExplain ==
  /\ pc = "teach"
  /\ turns < MaxTurns
  /\ turns' = turns + 1
  /\ SetLimiter(Explain(Limiter))
  /\ UNCHANGED <<rate_limit_enabled, rpm, rph, rpd, advances, denied, pc, history,
                 command_history, max_history_size, api_key, libs, shell_command,
                 answer, exec_calls, exVars, regVars, call>>

\* rate_limit on / rate_limit off at the main prompt
MainRateLimit ==
  /\ pc = "prompt"
  /\ \E on \in BOOLEAN : rate_limit_enabled' = on
  /\ UNCHANGED <<now, requests, rpm, rph, rpd, check_ret, recorded, denied, advances,
                 mainVars, exVars, regVars, call>>

\* Time passes while the main loop waits at its prompt.
MainAdvance ==
  /\ pc = "prompt"
  /\ advances < MaxMainAdvances
  /\ \E d \in MainClockSteps : now' = now + d
  /\ advances' = advances + 1
  /\ UNCHANGED <<requests, rate_limit_enabled, rpm, rph, rpd, check_ret, recorded,
                 denied, mainVars, exVars, regVars, call>>

\* The except clauses of nothing: every exception ends the process.
Unhandled(exc) == "exited"

\* The except clauses of the main loop: where control goes when exc reaches
\* them (KeyboardInterrupt: continue, EOFError: break, Exception: continue)
MainHandler(exc) ==
  IF exc = "KeyboardInterrupt" THEN "prompt"
  ELSE IF exc = "EOFError" THEN "exited"
  ELSE "prompt"

\* The except clause of the teaching loop takes KeyboardInterrupt; anything
\* else goes on to the clauses of the main loop.
TeachHandler(exc) ==
  IF exc = "KeyboardInterrupt" THEN "teach" ELSE MainHandler(exc)

\* What input() can raise instead of returning a line.
InputExceptions == {"KeyboardInterrupt", "EOFError", "UnicodeDecodeError"}

\* Leaving the loop notes what ended it.
Leave(target, cause) ==
  /\ pc' = target
  /\ call' = IF target = "exited" THEN [op |-> "exit", cause |-> cause] ELSE call

\* exit, quit or q at the main prompt
MainQuit ==
  /\ pc = "prompt"
  /\ Leave("exited", "quit")
  /\ UNCHANGED <<rlVars, history, command_history, max_history_size, api_key, libs,
                 shell_command, answer, dispatched, exec_calls, turns, exVars, regVars>>

\* input() raises at the main prompt, at the confirmation question or at the
\* prompt of the teaching loop.
MainInputRaises ==
  /\ pc \in {"prompt", "confirm", "teach"}
  /\ \E exc \in InputExceptions :
       Leave(IF pc = "teach" THEN TeachHandler(exc) ELSE MainHandler(exc), exc)
  /\ shell_command' = <<>>
  /\ UNCHANGED <<rlVars, history, command_history, max_history_size, api_key, libs,
                 answer, dispatched, exec_calls, turns, exVars, regVars>>

\* The user interrupts natural_language_to_shell while its request is in
\* flight: no clause of the function takes KeyboardInterrupt, so it reaches the
\* main loop with the conversation and the limiter as the request left them.
MainTranslateInterrupted ==
  /\ pc = "prompt"
  /\ turns < MaxTurns
  /\ turns' = turns + 1
  /\ \E nl \in NLInputs :
       LET t == Translate(nl, "error", <<>>)
       IN /\ history' = t.h
          /\ SetLimiter(t.l)
  /\ Leave(MainHandler("KeyboardInterrupt"), "KeyboardInterrupt")
  /\ shell_command' = <<>>
  /\ UNCHANGED <<rate_limit_enabled, rpm, rph, rpd, advances, denied, command_history,
                 max_history_size, api_key, libs, exec_calls, answer, exVars, regVars>>

\* The user interrupts explain_natural_language or explain_shell_command in
\* the teaching loop while its request is in flight.
TeachExplainInterrupted ==
  /\ pc = "teach"
  /\ turns < MaxTurns
  /\ turns' = turns + 1
  /\ SetLimiter(Explain(Limiter))
  /\ Leave(TeachHandler("KeyboardInterrupt"), "KeyboardInterrupt")
  /\ UNCHANGED <<rate_limit_enabled, rpm, rph, rpd, advances, denied, history,
                 command_history, max_history_size, api_key, libs, shell_command,
                 answer, exec_calls, exVars, regVars>>

InitMain ==
  /\ now = 0
  /\ requests = <<>>
  /\ rate_limit_enabled = TRUE
  /\ rpm = 2
  /\ rph = 3
  /\ rpd = 3
  /\ check_ret = "none"
  /\ recorded = <<>>
  /\ denied = FALSE
  /\ advances = 0
  /\ pc = "prompt"
  /\ history = <<SystemPrompt>>
  /\ command_history = <<>>
  /\ max_history_size \in CapChoices
  /\ api_key \in ApiKeys
  /\ libs \in LibChoices
  /\ (libs = "all" \/ ~KeyInvalid(api_key))
  /\ shell_command = <<>>
  /\ answer = "none"
  /\ dispatched = 0
  /\ exec_calls = 0
  /\ turns = 0
  /\ ExecUnused
  /\ RegUnused
  /\ call = NoCall

NextMain ==
  \/ MainTranslate
  \/ MainAnswer
  \/ MainRun
  \/ MainExplain
  \/ MainTeach
  \/ TeachExplain
  \/ MainRateLimit
  \/ MainAdvance
  \/ MainQuit
  \/ MainInputRaises
  \/ MainTranslateInterrupted
  \/ TeachExplainInterrupted

SpecMain == InitMain /\ [][NextMain]_vars

(***************************************************************************)
(* execute_shell_command, one call, step by step, with the child process   *)
(* it launches.  The child writes lines to its stdout and stderr through   *)
(* pipes of bounded capacity; a line is named by the number of the write   *)
(* that produced it.                                                       *)
(***************************************************************************)
\* Bounds of the executor model.
MaxWrites == 3
MaxTime == 3
PipeCap == 2

TimeoutChoices == {1, 2}
ExitCodes == {0, 1}
TermGrace == 1
SelectPoll == 1

\* The command being run.
TheCommand == shell_command

\* Commands given to the call: a plain one, one with sudo, and a comment
\* line that names sudo.
ExecCommands ==
  { <<"l","s">>,
    <<"s","u","d","o"," ","l","s">>,
    <<"#","s","u","d","o">> }

\* 'sudo' in command and not command.startswith('#')
IsSudoCommand(command) ==
  Contains(command, <<"s","u","d","o">>) /\ ~StartsWith(command, <<"#">>)

\* How a command run by os.system can end: it exits with a code, or a signal
\* kills it (9 is SIGKILL).
SudoEnds ==
  { [how |-> "exited", n |-> 0], [how |-> "exited", n |-> 1],
    [how |-> "killed", n |-> 9] }

\* The wait status os.system returns on a non-Windows system: the exit code in
\* the high byte, the number of the killing signal in the low byte.
ExitShift == 256
WaitStatus(end) == IF end.how = "exited" THEN end.n * ExitShift ELSE end.n

\* The wait status taken as the exit code.
RawStatus(status) == status

\* returncode = returncode // 256
SudoReturnCode(status) == status \div ExitShift

\* The child has not ended: it runs, or it is blocked in a write to a full pipe.
Alive(c) == c.state \in {"running", "blocked_out", "blocked_err"}

\* The child after process.kill(), or after a SIGTERM that ends it.
Killed(c) ==
  [c EXCEPT !.state = IF Alive(c) THEN "killed" ELSE @,
            !.out_open = FALSE, !.err_open = FALSE]

\* The parent cannot go on until the child acts or time passes.
ParentBlocked ==
  \/ ex_pc = "reading_stdout" /\ out_pipe = <<>> /\ child.out_open
  \/ ex_pc = "reading_stderr" /\ err_pipe = <<>> /\ child.err_open
  \/ ex_pc = "wait" /\ Alive(child)
  \/ ex_pc = "sudo_running"

\* The session part of the call that the executor leaves alone.
ExecFrame ==
  UNCHANGED <<rate_limit_enabled, rpm, rph, rpd, denied, advances, pc, history,
              max_history_size, api_key, libs, shell_command, answer, exec_calls, turns,
              os_name, is_sudo_command, timeout, sudo_end, regVars, call>>

LimiterUnchanged == UNCHANGED <<now, requests, recorded, check_ret, dispatched>>

\* The call returns value; the advisor ran first when advise is set.
Return(kind, rc, out, err, how) ==
  /\ result' = [kind |-> kind, rc |-> rc, out |-> out, err |-> err]
  /\ path' = how
  /\ ex_pc' = "returned"

\* _log_command_output(command, stdout, stderr, returncode)
Logged(entries, rc, out, err) ==
  Append(entries, [command |-> TheCommand, rc |-> rc, out |-> out, err |-> err])

\* if returncode != 0: self._get_error_solution_from_llm(...)
AdviseIfFailed(rc) ==
  IF rc # 0
  THEN /\ advisor_calls' = advisor_calls + 1
       /\ \E post \in PostOutcomes : SetLimiter(Advise(Limiter, post))
  ELSE /\ advisor_calls' = advisor_calls
       /\ LimiterUnchanged

\* The start of the call up to the launch: the command is noted in
\* command_history; a sudo command on a non-Windows system goes to
\* os.system (which may raise), any other command to Popen (twice on a non-Windows system,
\* the second process replacing the first).  Popen may raise.
ExecLaunch ==
  /\ ex_pc = "idle"
  /\ command_history' = Append(command_history, TheCommand)
  /\ IF is_sudo_command /\ os_name # "nt"
     THEN /\ \/ /\ ex_pc' = "sudo_running"
                /\ UNCHANGED <<result, path>>
             \/ Return("tuple", -1, <<>>, <<"e">>, "sudo_error")
          /\ UNCHANGED <<child, orphan, advisor_calls>>
          /\ LimiterUnchanged
     ELSE \/ /\ child' = [state |-> "running", out_open |-> TRUE, err_open |-> TRUE]
             /\ orphan' = IF os_name # "nt" THEN "running" ELSE "none"
             /\ ex_pc' = "reading_stdout"
             /\ UNCHANGED <<result, path, advisor_calls>>
             /\ LimiterUnchanged
          \/ /\ advisor_calls' = advisor_calls + 1
             /\ \E post \in PostOutcomes : SetLimiter(Advise(Limiter, post))
             /\ Return("int", -1, <<>>, <<>>, "launch_error")
             /\ UNCHANGED <<child, orphan>>
  /\ UNCHANGED <<elapsed, out_pipe, err_pipe, stdout_lines, stderr_lines, readable,
                 log_entries, written_out, written_err, overran>>
  /\ ExecFrame

\* os.system(command) returns: the exit status is logged and, when it is
\* not 0, the advisor is called.
ExecSudoDone ==
  /\ ex_pc = "sudo_running"
  /\ LET rc == SudoReturnCode(WaitStatus(sudo_end))
     IN /\ log_entries' = Logged(log_entries, rc, <<>>, <<>>)
        /\ AdviseIfFailed(rc)
        /\ Return("tuple", rc, <<>>, <<>>, "sudo")
  /\ UNCHANGED <<command_history, elapsed, child, orphan, out_pipe, err_pipe,
                 stdout_lines, stderr_lines, readable, written_out, written_err, overran>>
  /\ ExecFrame

\* A read that loses the line.
WithoutLine(buffer, line) == buffer

\* The buffer after one line read from a stream was appended to it.
WithLine(buffer, line) == Append(buffer, line)

\* for line in process.stdout: one line is read and appended, or the end of
\* the stream is seen and the stderr loop begins.
ExecReadStdout ==
  /\ ex_pc = "reading_stdout"
  /\ \/ /\ out_pipe # <<>>
        /\ stdout_lines' = WithLine(stdout_lines, Head(out_pipe))
        /\ out_pipe' = Tail(out_pipe)
        /\ UNCHANGED ex_pc
     \/ /\ out_pipe = <<>> /\ ~child.out_open
        /\ ex_pc' = "reading_stderr"
        /\ UNCHANGED <<stdout_lines, out_pipe>>
  /\ UNCHANGED <<command_history, elapsed, child, orphan, err_pipe, stderr_lines, readable,
                 result, path, log_entries, advisor_calls, written_out, written_err,
                 overran>>
  /\ LimiterUnchanged
  /\ ExecFrame

\* for line in process.stderr: likewise; at the end of the stream the
\* timeout is looked at.
ExecReadStderr ==
  /\ ex_pc = "reading_stderr"
  /\ \/ /\ err_pipe # <<>>
        /\ stderr_lines' = WithLine(stderr_lines, Head(err_pipe))
        /\ err_pipe' = Tail(err_pipe)
        /\ UNCHANGED ex_pc
     \/ /\ err_pipe = <<>> /\ ~child.err_open
        /\ ex_pc' = "timeout_check"
        /\ UNCHANGED <<stderr_lines, err_pipe>>
  /\ UNCHANGED <<command_history, elapsed, child, orphan, out_pipe, stdout_lines, readable,
                 result, path, log_entries, advisor_calls, written_out, written_err,
                 overran>>
  /\ LimiterUnchanged
  /\ ExecFrame

\* The direct read raises: the select loop takes over with both streams.
ExecReadRaises ==
  /\ ex_pc \in {"reading_stdout", "reading_stderr"}
  /\ ex_pc' = "select_loop"
  /\ readable' = {"stdout", "stderr"}
  /\ UNCHANGED <<command_history, elapsed, child, orphan, out_pipe, err_pipe, stdout_lines,
                 stderr_lines, result, path, log_entries, advisor_calls, written_out,
                 written_err, overran>>
  /\ LimiterUnchanged
  /\ ExecFrame

\* The streams select reports: those with a line to read or at their end.
Ready ==
  {st \in readable :
     IF st = "stdout" THEN out_pipe # <<>> \/ ~child.out_open
                      ELSE err_pipe # <<>> \/ ~child.err_open}

\* One round of: while readable and time.time() - start_time < timeout.
ExecSelect ==
  /\ ex_pc = "select_loop"
  /\ IF readable = {} \/ elapsed >= timeout
     THEN /\ ex_pc' = "timeout_check"
          /\ UNCHANGED <<elapsed, out_pipe, err_pipe, stdout_lines, stderr_lines, readable,
                         overran>>
     ELSE IF Ready = {}
     THEN /\ elapsed' = elapsed + SelectPoll
          /\ overran' = (overran \/ (Alive(child) /\ elapsed' > timeout))
          /\ UNCHANGED <<ex_pc, out_pipe, err_pipe, stdout_lines, stderr_lines, readable>>
     ELSE /\ stdout_lines' = IF "stdout" \in Ready /\ out_pipe # <<>>
                             THEN WithLine(stdout_lines, Head(out_pipe)) ELSE stdout_lines
          /\ out_pipe' = IF "stdout" \in Ready /\ out_pipe # <<>>
                         THEN Tail(out_pipe) ELSE out_pipe
          /\ stderr_lines' = IF "stderr" \in Ready /\ err_pipe # <<>>
                             THEN WithLine(stderr_lines, Head(err_pipe)) ELSE stderr_lines
          /\ err_pipe' = IF "stderr" \in Ready /\ err_pipe # <<>>
                         THEN Tail(err_pipe) ELSE err_pipe
          /\ readable' = readable \ {st \in Ready :
                            IF st = "stdout" THEN out_pipe = <<>> ELSE err_pipe = <<>>}
          /\ UNCHANGED <<ex_pc, elapsed, overran>>
  /\ UNCHANGED <<command_history, child, orphan, result, path, log_entries, advisor_calls,
                 written_out, written_err>>
  /\ LimiterUnchanged
  /\ ExecFrame

\* if time.time() - start_time >= timeout
TimedOut(time_used, limit) == time_used >= limit

\* The test after the reading: past the timeout the child is terminated (on
\* Windows killed at once, elsewhere sent SIGTERM, which it may survive);
\* otherwise the call waits for the child.
ExecTimeoutCheck ==
  /\ ex_pc = "timeout_check"
  /\ IF TimedOut(elapsed, timeout)
     THEN IF os_name = "nt"
          THEN /\ child' = Killed(child)
               /\ Return("int", -1, <<>>, <<>>, "timeout")
          ELSE /\ \/ child' = Killed(child)
                  \/ Alive(child) /\ child' = child
               /\ ex_pc' = "term_sleep"
               /\ UNCHANGED <<result, path>>
     ELSE /\ ex_pc' = "wait"
          /\ UNCHANGED <<child, result, path>>
  /\ UNCHANGED <<command_history, elapsed, orphan, out_pipe, err_pipe, stdout_lines,
                 stderr_lines, readable, log_entries, advisor_calls, written_out,
                 written_err, overran>>
  /\ LimiterUnchanged
  /\ ExecFrame

\* time.sleep(1); if process.poll() is None: process.kill(); return -1
ExecKill ==
  /\ ex_pc = "term_sleep"
  /\ elapsed' = elapsed + TermGrace
  /\ child' = Killed(child)
  /\ Return("int", -1, <<>>, <<>>, "timeout")
  /\ UNCHANGED <<command_history, orphan, out_pipe, err_pipe, stdout_lines, stderr_lines,
                 readable, log_entries, advisor_calls, written_out, written_err, overran>>
  /\ LimiterUnchanged
  /\ ExecFrame

\* process.wait() returns; what is left in the pipes is read and appended,
\* the result is logged, the advisor is called on a non-zero exit code and
\* the tuple is returned.
ExecFinish ==
  /\ ex_pc = "wait"
  /\ child.state = "exited"
  /\ LET out == stdout_lines \o out_pipe
         err == stderr_lines \o err_pipe
     IN /\ stdout_lines' = out
        /\ stderr_lines' = err
        /\ out_pipe' = <<>>
        /\ err_pipe' = <<>>
        /\ log_entries' = Logged(log_entries, child.rc, out, err)
        /\ AdviseIfFailed(child.rc)
        /\ Return("tuple", child.rc, out, err, "normal")
  /\ UNCHANGED <<command_history, elapsed, child, orphan, readable, written_out,
                 written_err, overran>>
  /\ ExecFrame

\* The user presses Ctrl-C while the call waits: except KeyboardInterrupt.
\* (While os.system runs a command the caller ignores SIGINT.)
ExecInterrupt ==
  /\ ex_pc \in {"reading_stdout", "reading_stderr", "select_loop", "term_sleep", "wait"}
  /\ Return("int", -1, <<>>, <<>>, "interrupted")
  /\ UNCHANGED <<command_history, elapsed, child, orphan, out_pipe, err_pipe, stdout_lines,
                 stderr_lines, readable, log_entries, advisor_calls, written_out,
                 written_err, overran>>
  /\ LimiterUnchanged
  /\ ExecFrame

ChildFrame ==
  /\ UNCHANGED <<command_history, ex_pc, elapsed, orphan, stdout_lines, stderr_lines,
                 readable, result, path, log_entries, advisor_calls, overran>>
  /\ LimiterUnchanged
  /\ ExecFrame

\* The child writes one line to its stdout or to its stderr.  With room in
\* the pipe the write is done at once; with the pipe full the child blocks
\* in the write.
ChildWrite ==
  /\ child.state = "running"
  /\ Len(written_out) + Len(written_err) < MaxWrites
  /\ LET line == Len(written_out) + Len(written_err) + 1
     IN \/ /\ child.out_open /\ Len(out_pipe) < PipeCap
           /\ out_pipe' = Append(out_pipe, line)
           /\ written_out' = Append(written_out, line)
           /\ UNCHANGED <<child, err_pipe, written_err>>
        \/ /\ child.err_open /\ Len(err_pipe) < PipeCap
           /\ err_pipe' = Append(err_pipe, line)
           /\ written_err' = Append(written_err, line)
           /\ UNCHANGED <<child, out_pipe, written_out>>
        \/ /\ child.out_open /\ Len(out_pipe) >= PipeCap
           /\ child' = [child EXCEPT !.state = "blocked_out"]
           /\ UNCHANGED <<out_pipe, err_pipe, written_out, written_err>>
        \/ /\ child.err_open /\ Len(err_pipe) >= PipeCap
           /\ child' = [child EXCEPT !.state = "blocked_err"]
           /\ UNCHANGED <<out_pipe, err_pipe, written_out, written_err>>
  /\ ChildFrame

\* The pipe the child is blocked on has room again: the write is done.
ChildResume ==
  /\ LET line == Len(written_out) + Len(written_err) + 1
     IN \/ /\ child.state = "blocked_out" /\ Len(out_pipe) < PipeCap
           /\ out_pipe' = Append(out_pipe, line)
           /\ written_out' = Append(written_out, line)
           /\ UNCHANGED <<err_pipe, written_err>>
        \/ /\ child.state = "blocked_err" /\ Len(err_pipe) < PipeCap
           /\ err_pipe' = Append(err_pipe, line)
           /\ written_err' = Append(written_err, line)
           /\ UNCHANGED <<out_pipe, written_out>>
  /\ child' = [child EXCEPT !.state = "running"]
  /\ ChildFrame

\* The child closes both of its output streams and keeps running.
ChildClose ==
  /\ child.state = "running"
  /\ child.out_open /\ child.err_open
  /\ child' = [child EXCEPT !.out_open = FALSE, !.err_open = FALSE]
  /\ UNCHANGED <<out_pipe, err_pipe, written_out, written_err>>
  /\ ChildFrame

\* The child exits on its own; its streams close with it.
ChildExit ==
  /\ child.state = "running"
  /\ \E rc \in ExitCodes :
       child' = [state |-> "exited", out_open |-> FALSE, err_open |-> FALSE, rc |-> rc]
  /\ UNCHANGED <<out_pipe, err_pipe, written_out, written_err>>
  /\ ChildFrame

\* The process of the first Popen ends on its own.
OrphanExit ==
  /\ orphan = "running"
  /\ orphan' = "exited"
  /\ UNCHANGED <<command_history, ex_pc, elapsed, child, out_pipe, err_pipe, stdout_lines,
                 stderr_lines, readable, result, path, log_entries, advisor_calls,
                 written_out, written_err, overran>>
  /\ LimiterUnchanged
  /\ ExecFrame

\* A second passes while the parent is blocked.
ExecTick ==
  /\ ParentBlocked
  /\ elapsed < MaxTime
  /\ elapsed' = elapsed + 1
  /\ overran' = (overran \/ (Alive(child) /\ elapsed' > timeout))
  /\ UNCHANGED <<command_history, ex_pc, child, orphan, out_pipe, err_pipe, stdout_lines,
                 stderr_lines, readable, result, path, log_entries, advisor_calls,
                 written_out, written_err>>
  /\ LimiterUnchanged
  /\ ExecFrame

InitExec ==
  /\ now = 0
  /\ requests = <<>>
  /\ rate_limit_enabled = TRUE
  /\ rpm = 2
  /\ rph = 3
  /\ rpd = 3
  /\ check_ret = "none"
  /\ recorded = <<>>
  /\ denied = FALSE
  /\ advances = 0
  /\ pc = "answered"
  /\ history = <<SystemPrompt>>
  /\ command_history = <<>>
  /\ max_history_size = 3
  /\ api_key = "sk-valid-key-0001"
  /\ libs = "all"
  /\ shell_command \in ExecCommands
  /\ answer = <<"y">>
  /\ dispatched = 0
  /\ exec_calls = 1
  /\ turns = 1
  /\ call = NoCall
  /\ ExecIdle
  /\ RegUnused
  /\ os_name \in {"posix", "nt"}
  /\ is_sudo_command = IsSudoCommand(shell_command)
  /\ timeout \in TimeoutChoices
  /\ sudo_end \in (IF is_sudo_command /\ os_name # "nt" THEN SudoEnds ELSE {NoEnd})

NextExec ==
  \/ ExecLaunch
  \/ ExecSudoDone
  \/ ExecReadStdout
  \/ ExecReadStderr
  \/ ExecReadRaises
  \/ ExecSelect
  \/ ExecTimeoutCheck
  \/ ExecKill
  \/ ExecFinish
  \/ ExecInterrupt
  \/ ChildWrite
  \/ ChildResume
  \/ ChildClose
  \/ ChildExit
  \/ OrphanExit
  \/ ExecTick

SpecExec == InitExec /\ [][NextExec]_vars

(***************************************************************************)
(* _simple_command_fallback.  The Chinese characters of the table keys are *)
(* written as their pinyin syllables with the tone number, one token per   *)
(* character; the commands returned are literals of the code, written here *)
(* as strings (Chinese text in them in pinyin).                            *)
(***************************************************************************)
\* command_map, in the order of the dict literal: key, command.
command_map ==
  << << <<"lie4","chu1","wen2","jian4">>, "dir" >>,
     << <<"l","s">>, "dir" >>,
     << <<"xian3","shi4","dang1","qian2","mu4","lu4">>, "cd" >>,
     << <<"p","w","d">>, "cd" >>,
     << <<"qie1","huan4","mu4","lu4">>, "cd" >>,
     << <<"chuang4","jian4b","mu4","lu4">>, "mkdir" >>,
     << <<"shan1","chu2","mu4","lu4">>, "rmdir" >>,
     << <<"chuang4","jian4b","wen2","jian4">>, "echo >" >>,
     << <<"cha2","kan4","wen2","jian4">>, "type" >>,
     << <<"shan1","chu2","wen2","jian4">>, "del" >>,
     << <<"fu4","zhi4","wen2","jian4">>, "copy" >>,
     << <<"yi2","dong4","wen2","jian4">>, "move" >>,
     << <<"xi4","tong3","xin4","xi1">>, "systeminfo" >>,
     << <<"i","p","di4","zhi3">>, "ipconfig" >>,
     << <<"jin4","cheng2","lie4","biao3">>, "tasklist" >>,
     << <<"qing1","ping2">>, "cls" >>,
     << <<"tui4","chu1">>, "exit" >> >>

\* The answer to an input that matches nothing.
DefaultCommand == "echo wu fa shi bie de ming ling. shi shi shu ru lie chu wen jian deng jian dan ming ling."

\* The chain of special cases after the table.
SpecialCase(nl) ==
  IF Contains(nl, <<"h","e","l","l","o">>) \/ Contains(nl, <<"ni3","hao3">>)
    THEN "echo Hello, World!"
  ELSE IF Contains(nl, <<"t","e","s","t">>)
    THEN "echo ce shi ming ling zhi xing cheng gong"
  ELSE IF \/ Contains(nl, <<"l","i","s","t">>)
          \/ Contains(nl, <<"l","s">>)
          \/ Contains(nl, <<"d","i","r">>)
    THEN "dir"
  ELSE IF \/ Contains(nl, <<"c","d">>)
          \/ Contains(nl, <<"qie1","huan4","mu4","lu4">>)
          \/ Contains(nl, <<"mu4","lu4">>)
    THEN "cd"
  ELSE IF Contains(nl, <<"f","i","l","e">>) \/ Contains(nl, <<"wen2","jian4">>)
    THEN "dir"
  ELSE IF Contains(nl, <<"s","y","s","t","e","m">>) \/ Contains(nl, <<"xi4","tong3">>)
    THEN "systeminfo"
  ELSE IF \/ Contains(nl, <<"e","x","i","t">>)
          \/ Contains(nl, <<"tui4","chu1">>)
          \/ Contains(nl, <<"q","u","i","t">>)
    THEN "exit"
  ELSE IF Contains(nl, <<"c","l","e","a","r">>) \/ Contains(nl, <<"qing1","ping2">>)
    THEN "cls"
  ELSE DefaultCommand

\* A loop over the table that returns the command of the last matching key.
LastMatch(nl) ==
  LET i == CHOOSE k \in 1..Len(command_map) :
             /\ Contains(nl, command_map[k][1])
             /\ \A m \in (k + 1)..Len(command_map) : ~Contains(nl, command_map[m][1])
  IN command_map[i][2]

\* for key, cmd in command_map.items(): if key in natural_language: return cmd
FirstMatch(nl) ==
  LET i == CHOOSE k \in 1..Len(command_map) :
             /\ Contains(nl, command_map[k][1])
             /\ \A m \in 1..(k - 1) : ~Contains(nl, command_map[m][1])
  IN command_map[i][2]

simple_command_fallback(natural_language) ==
  LET nl == Lower(natural_language)
  IN IF \E k \in 1..Len(command_map) : Contains(nl, command_map[k][1])
     THEN FirstMatch(nl)
     ELSE SpecialCase(nl)

(***************************************************************************)
(* The methods that compute a value from their argument alone, each       *)
(* called once on a session as __init__ leaves it.                         *)
(***************************************************************************)
\* Number of pieces an argument is put together from.
MaxParts == 3

\* Pieces of a model answer: a fence line, prefix labels, a command word,
\* irregular whitespace.
Pieces ==
  { Fence \o <<"\n">>,
    <<"$", " ">>,
    <<"b", "a", "s", "h", ":", " ">>,
    <<"l", "s">>,
    <<" ", "\n", " ">> }

\* Pieces of a request: table keys, words of the special cases, other text.
Words ==
  { <<"l", "s">>,
    <<"P", "W", "D">>,
    <<"lie4", "chu1", "wen2", "jian4">>,
    <<"tui4", "chu1">>,
    <<"mu4", "lu4">>,
    <<"H", "e", "l", "l", "o">>,
    <<"z">> }

\* Pieces of a command as the model may answer it.
CommandPieces ==
  { <<"r", "m">>,
    <<" ", "-", "r", "f", " ", "/", "t", "m", "p", "/", "x">>,
    <<" ", "\n", " ">>,
    <<"s", "u", "d", "o", " ", "s", "h", "u", "t", "d", "o", "w", "n", " ", "n", "o", "w">>,
    <<"l", "s", " ", "-", "l", "a">>,
    <<"r", "e", "b", "o", "o", "t">>,
    <<"p", "o", "w", "e", "r", "o", "f", "f">> }

\* The strings put together from at most n pieces.
RECURSIVE Texts(_, _)
Texts(pieces, n) ==
  IF n = 0 THEN { <<>> }
  ELSE LET shorter == Texts(pieces, n - 1)
       IN shorter \cup { t \o p : t \in shorter, p \in pieces }

PureFrame == UNCHANGED <<rlVars, mainVars, exVars, regVars>>

\* _clean_command(raw), and _clean_command of its result
CallClean ==
  /\ call = NoCall
  /\ \E raw \in Texts(Pieces, MaxParts) :
       call' = [op |-> "clean", input |-> raw, ret |-> clean_command(raw),
                again |-> clean_command(clean_command(raw))]
  /\ PureFrame

\* _simple_command_fallback(text)
CallFallback ==
  /\ call = NoCall
  /\ \E text \in Texts(Words, MaxParts) :
       call' = [op |-> "fallback", input |-> text, ret |-> simple_command_fallback(text)]
  /\ PureFrame

\* _is_dangerous_command(command) on a command as main passes it: the
\* result of _clean_command.
CallDangerous ==
  /\ call = NoCall
  /\ \E raw \in Texts(CommandPieces, MaxParts) :
       LET command == clean_command(raw)
       IN call' = [op |-> "dangerous", input |-> command,
                   ret |-> is_dangerous_command(command)]
  /\ PureFrame

InitPure == RLInit /\ rpm = 2 /\ MainIdle /\ ExecUnused /\ RegUnused /\ call = NoCall

NextPure ==
  \/ CallClean
  \/ CallFallback
  \/ CallDangerous

SpecPure == InitPure /\ [][NextPure]_vars

(***************************************************************************)
(* Methods of the session called directly, one after another:              *)
(* natural_language_to_shell, and _check_rate_limit twice in a row.        *)
(***************************************************************************)
CallClockSteps == {57, 86400}

\* What the provider answers in these calls.
CallResponses == { <<"p","w","d","\n">>, <<"$"," ","r","m"," ","-","r","f"," ","x">> }

CallFrame ==
  UNCHANGED <<rate_limit_enabled, rpm, rph, rpd, denied, pc, command_history,
              max_history_size, api_key, libs, shell_command, answer, exec_calls, exVars, regVars>>

\* natural_language_to_shell(nl), the provider answering net / resp
CallTranslate ==
  /\ turns < MaxTurns
  /\ turns' = turns + 1
  /\ \E nl \in NLInputs, net \in TranslateNet, resp \in CallResponses :
       LET t == Translate(nl, net, resp)
       IN /\ history' = t.h
          /\ SetLimiter(t.l)
          /\ call' = [op |-> "translate", input |-> nl, net |-> net, ret |-> t.ret,
                      sent |-> (t.l.dispatched > dispatched),
                      messages |-> t.msgs,
                      checks |-> t.l.checks,
                      first |-> AfterCheck(Limiter).check_ret,
                      last |-> t.l.check_ret,
                      took |-> t.l.now - now,
                      stamps |-> SubSeq(t.l.recorded, Len(recorded) + 1, Len(t.l.recorded))]
  /\ UNCHANGED advances
  /\ CallFrame

\* _get_error_solution_from_llm(command, stdout, stderr, returncode) with
\* requests.post ending as post
CallAdvise ==
  /\ turns < MaxTurns
  /\ turns' = turns + 1
  /\ \E post \in PostOutcomes :
       LET a == Advise(Limiter, post)
       IN /\ SetLimiter(a)
          /\ call' = [op |-> "advise", post |-> post,
                      sent |-> (a.dispatched > dispatched),
                      checks |-> a.checks,
                      last |-> a.check_ret,
                      took |-> a.now - now,
                      stamps |-> SubSeq(a.recorded, Len(recorded) + 1, Len(a.recorded))]
  /\ UNCHANGED <<history, advances>>
  /\ CallFrame

\* _check_rate_limit() and at once _check_rate_limit() again
CallCheckTwice ==
  /\ LET l1 == AfterCheck(Limiter)
         l2 == AfterCheck(l1)
     IN /\ SetLimiter(l2)
        /\ call' = [op |-> "check_twice",
                    first |-> l1.check_ret, second |-> l2.check_ret,
                    kept_first |-> l1.requests, kept_second |-> l2.requests]
  /\ UNCHANGED <<history, turns, advances>>
  /\ CallFrame

\* Time passes between two calls.
CallAdvance ==
  /\ advances < MaxMainAdvances
  /\ \E d \in CallClockSteps : now' = now + d
  /\ advances' = advances + 1
  /\ UNCHANGED <<requests, recorded, check_ret, dispatched, history, turns, call>>
  /\ CallFrame

\* Conversations the main loop hands to the next request: the one __init__
\* built, and the ones left after one executed command under a cap of 3, 2
\* and 1 entries (the trim of the main loop keeps the last entries).
Conversations ==
  LET u == [role |-> "user", content |-> <<"o","l","d">>]
      a == [role |-> "assistant", content |-> <<"p","w","d">>]
  IN { <<SystemPrompt>>, <<SystemPrompt, u, a>>, <<u, a>>, <<a>> }

\* The cap under which the main loop leaves conversation h.
CapOf(h) == IF Head(h).role = "system" THEN 3 ELSE Len(h)

InitCalls ==
  /\ now = 0
  /\ requests = <<>>
  /\ rate_limit_enabled = TRUE
  /\ rpm \in RpmChoices
  /\ rph = 3
  /\ rpd = 3
  /\ check_ret = "none"
  /\ recorded = <<>>
  /\ denied = FALSE
  /\ advances = 0
  /\ pc = "prompt"
  /\ history \in Conversations
  /\ command_history = <<>>
  /\ max_history_size = CapOf(history)
  /\ api_key \in ApiKeys
  /\ libs \in LibChoices
  /\ (libs = "all" \/ ~KeyInvalid(api_key))
  /\ (history = <<SystemPrompt>> \/ (libs = "all" /\ ~KeyInvalid(api_key) /\ rpm = 2))
  /\ shell_command = <<>>
  /\ answer = "none"
  /\ dispatched = 0
  /\ exec_calls = 0
  /\ turns = 0
  /\ ExecUnused
  /\ RegUnused
  /\ call = NoCall

NextCalls ==
  \/ CallTranslate
  \/ CallAdvise
  \/ CallCheckTwice
  \/ CallAdvance

SpecCalls == InitCalls /\ [][NextCalls]_vars

(***************************************************************************)
(* The model registry and the selection of the current model: the          *)
(* construction of the session, the --model option, and the commands       *)
(* model <name> and config model <value> of the main loop.                 *)
(***************************************************************************)
\* self.model_providers as _init_model_manager builds it
model_providers ==
  ("Qwen/Qwen3-32B" :>
     [provider |-> "modelscope",
      api_base_url |-> "https://api-inference.modelscope.cn/v1",
      api_key_env |-> "MODEL_SCOPE_API", endpoint |-> "/chat/completions"]) @@
  ("GLM-4.6" :>
     [provider |-> "modelscope",
      api_base_url |-> "https://api-inference.modelscope.cn/v1",
      api_key_env |-> "MODEL_SCOPE_API", endpoint |-> "/chat/completions",
      model_id |-> "ZhipuAI/GLM-4.6"]) @@
  ("ecnu-plus" :>
     [provider |-> "ecnu",
      api_base_url |-> "https://chat.ecnu.edu.cn/open/api/v1",
      api_key_env |-> "ECNU_API_KEY", endpoint |-> "/chat/completions"]) @@
  ("ecnu-max" :>
     [provider |-> "ecnu",
      api_base_url |-> "https://chat.ecnu.edu.cn/open/api/v1",
      api_key_env |-> "ECNU_API_KEY", endpoint |-> "/chat/completions"]) @@
  ("ChatECNU" :>
     [provider |-> "ecnu",
      api_base_url |-> "https://chat.ecnu.edu.cn/open/api/v1",
      api_key_env |-> "ECNU_API_KEY", endpoint |-> "/chat/completions"])

\* self.available_models
available_models == DOMAIN model_providers

\* default_model of __init__
DefaultModel == "GLM-4.6"

\* Names given to model, config model and --model: two of the registry, with
\* different providers, and one that is not in it.
ModelNames == {"GLM-4.6", "ecnu-plus", "gpt-4"}

\* Keys that the sources can hold.
EnvironChoices ==
  { [k \in {"MODEL_SCOPE_API", "ECNU_API_KEY"} |-> ""],
    [k \in {"MODEL_SCOPE_API", "ECNU_API_KEY"} |->
       IF k = "MODEL_SCOPE_API" THEN "env-modelscope-key" ELSE ""],
    [k \in {"MODEL_SCOPE_API", "ECNU_API_KEY"} |->
       IF k = "ECNU_API_KEY" THEN "env-ecnu-key-0001" ELSE ""] }

ApiKeysChoices ==
  { [k \in KeyNames |-> ""],
    [k \in KeyNames |-> IF k = "ecnu" THEN "cfg-provider-key" ELSE ""],
    [k \in KeyNames |-> IF k = "ECNU_API_KEY" THEN "cfg-envname-key" ELSE ""],
    [k \in KeyNames |->
       IF k = "ecnu" THEN "cfg-provider-key"
       ELSE IF k = "ECNU_API_KEY" THEN "cfg-envname-key" ELSE ""] }

SingleKeyChoices == {"", "cfg-single-key-01"}
KeyFileChoices == {"", "legacy-file-key-1"}

\* "Authorization": f"Bearer {self.api_key}" if self.api_key else ""
Header(key) == IF key = "" THEN <<>> ELSE <<"Bearer ", key>>

\* The fields of the session that a selection sets.
Session ==
  [model |-> model, api_base_url |-> api_base_url, api_key |-> api_key,
   authorization |-> authorization]

\* A selection that takes the name before it looks it up.
AssignThenValidate(s, model_name, cfg, env) ==
  [ok |-> model_name \in DOMAIN model_providers, s |-> [s EXCEPT !.model = model_name]]

\* _set_current_model(model_name) on session fields s, with self.config cfg
\* and the environment env: whether it returned True, and the fields after it
set_current_model(s, model_name, cfg, env) ==
  IF model_name \notin DOMAIN model_providers
  THEN [ok |-> FALSE, s |-> s]
  ELSE LET model_config == model_providers[model_name]
           api_key_env == model_config.api_key_env
           provider == model_config.provider
           from_env == env[api_key_env]
           from_provider == IF from_env = "" THEN cfg.api_keys[provider] ELSE from_env
           key == IF from_provider = "" THEN cfg.api_keys[api_key_env]
                  ELSE from_provider
       IN [ok |-> TRUE,
           s |-> [model |-> model_name,
                  api_base_url |-> model_config.api_base_url,
                  api_key |-> key,
                  authorization |-> Header(key)]]

\* _get_api_key() as __init__ calls it, before self.model exists: the
\* environment, then config["api_key"], then the single-key file; "" when none
\* of them holds a key.
get_api_key(cfg, env, file) ==
  LET from_env == IF env["MODEL_SCOPE_API"] # "" THEN env["MODEL_SCOPE_API"]
                  ELSE env["ECNU_API_KEY"]
      from_config == IF from_env = "" THEN cfg.api_key ELSE from_env
  IN IF from_config = "" THEN file ELSE from_config

\* self.config after _get_api_key: a key read from the single-key file is
\* copied to config["api_key"]
ConfigAfterGetKey(cfg, env, file) ==
  IF env["MODEL_SCOPE_API"] = "" /\ env["ECNU_API_KEY"] = "" /\ cfg.api_key = ""
     /\ file # ""
  THEN [cfg EXCEPT !.api_key = file]
  ELSE cfg

SetSession(s) ==
  /\ model' = s.model
  /\ api_base_url' = s.api_base_url
  /\ api_key' = s.api_key
  /\ authorization' = s.authorization

\* What the registry actions leave alone.
RegFrame ==
  UNCHANGED <<rlVars, history, command_history, max_history_size, libs, shell_command,
              answer, dispatched, exec_calls, turns, exVars, environ, key_file>>

\* python ecnu_shell_assistant.py --model <name>: assistant.model = args.model
ModelOverride ==
  /\ pc = "constructed"
  /\ \E name \in ModelNames :
       /\ model' = name
       /\ call' = [op |-> "override", name |-> name, ret |-> TRUE, prompted |-> FALSE]
  /\ pc' = "prompt"
  /\ UNCHANGED <<api_base_url, api_key, authorization, config, saved_config>>
  /\ RegFrame

\* The program is started without --model.
StartMain ==
  /\ pc = "constructed"
  /\ pc' = "prompt"
  /\ call' = [op |-> "start", name |-> model, ret |-> TRUE, prompted |-> FALSE]
  /\ UNCHANGED <<model, api_base_url, api_key, authorization, config, saved_config>>
  /\ RegFrame

\* model <name> at the main prompt: set_model(name)
ModelCommand ==
  /\ pc = "prompt"
  /\ \E name \in ModelNames :
       LET r == set_current_model(Session, name, config, environ)
       IN IF name \in available_models /\ r.ok
          THEN /\ SetSession(r.s)
               /\ config' = [config EXCEPT !.model = name]
               /\ saved_config' = config'
               /\ call' = [op |-> "model", name |-> name, ret |-> TRUE,
                           prompted |-> FALSE]
          ELSE /\ UNCHANGED <<model, api_base_url, api_key, authorization, config,
                              saved_config>>
               /\ call' = [op |-> "model", name |-> name, ret |-> FALSE,
                           prompted |-> FALSE]
  /\ UNCHANGED pc
  /\ RegFrame

\* _set_current_model(name) called on the session
CallSetCurrentModel ==
  /\ pc = "prompt"
  /\ \E name \in ModelNames :
       LET r == set_current_model(Session, name, config, environ)
       IN /\ SetSession(r.s)
          /\ call' = [op |-> "set_current_model", name |-> name, ret |-> r.ok,
                      prompted |-> FALSE]
  /\ UNCHANGED <<pc, config, saved_config>>
  /\ RegFrame

\* config model <value> at the main prompt: update_config("model", value)
ConfigModel ==
  /\ pc = "prompt"
  /\ \E value \in ModelNames :
       /\ config' = [config EXCEPT !.model = value]
       /\ model' = value
       /\ saved_config' = config'
       /\ call' = [op |-> "config", name |-> value, ret |-> TRUE, prompted |-> FALSE]
  /\ UNCHANGED <<pc, api_base_url, api_key, authorization>>
  /\ RegFrame

\* The session as ECNUShellAssistant() leaves it: _get_api_key found a key
\* (without one the constructor fails), and _set_current_model(default_model)
\* then set the model, the URL, the key and the header.
InitModel ==
  /\ RLInit
  /\ rpm = 2
  /\ ExecUnused
  /\ pc = "constructed"
  /\ history = <<SystemPrompt>>
  /\ command_history = <<>>
  /\ max_history_size = 3
  /\ libs = "all"
  /\ shell_command = <<>>
  /\ answer = "none"
  /\ dispatched = 0
  /\ exec_calls = 0
  /\ turns = 0
  /\ environ \in EnvironChoices
  /\ key_file \in KeyFileChoices
  /\ \E keys \in ApiKeysChoices, single \in SingleKeyChoices :
       LET loaded == [model |-> "Qwen/Qwen3-32B", api_key |-> single, api_keys |-> keys]
           cfg == ConfigAfterGetKey(loaded, environ, key_file)
           first == [model |-> DefaultModel,
                     api_base_url |-> "https://api-inference.modelscope.cn/v1",
                     api_key |-> get_api_key(loaded, environ, key_file),
                     authorization |-> Header(get_api_key(loaded, environ, key_file))]
           r == set_current_model(first, DefaultModel, cfg, environ)
       IN /\ get_api_key(loaded, environ, key_file) # ""
          /\ config = cfg
          /\ saved_config = cfg
          /\ model = r.s.model
          /\ api_base_url = r.s.api_base_url
          /\ api_key = r.s.api_key
          /\ authorization = r.s.authorization
  /\ call = NoCall

NextModel ==
  \/ ModelOverride
  \/ StartMain
  \/ ModelCommand
  \/ CallSetCurrentModel
  \/ ConfigModel

SpecModel == InitModel /\ [][NextModel]_vars

(***************************************************************************)
(* C1: with the limiter enabled, _check_rate_limit returns False exactly   *)
(* when the number of recorded timestamps younger than 60 s is >= rpm, or  *)
(* younger than 3600 s is >= rph, or younger than 86400 s is >= rpd; so    *)
(* once the clock has moved every count below its limit it returns True.   *)
(***************************************************************************)
WindowFull ==
  \/ CountYounger(recorded, now, 60) >= rpm
  \/ CountYounger(recorded, now, 3600) >= rph
  \/ CountYounger(recorded, now, 86400) >= rpd

C1_CheckIffWindowFull ==
  (rate_limit_enabled /\ check_ret # "none") => (check_ret = "False" <=> WindowFull)

\* A check that was refused earlier is allowed again after the clock advanced.
C1_Witness ==
  /\ rate_limit_enabled /\ denied /\ check_ret = "True"
  /\ Len(recorded) >= 2 /\ advances > 0

(***************************************************************************)
(* C2: _record_request is called exactly once for each outbound LLM call   *)
(* that is dispatched and never without one, so the number of recorded    *)
(* timestamps always equals the number of dispatched calls.               *)
(***************************************************************************)
C2_RecordedEqualsDispatched == Len(recorded) = dispatched

\* In the teaching loop an explanation went out and nothing was recorded.
C2_Witness == pc = "teach" /\ dispatched = 1 /\ recorded = <<>>

(***************************************************************************)
(* C3: the main loop runs a translated command (and notes it in            *)
(* command_history) only in the step that follows an affirmative answer    *)
(* for that very command: yes in any letter case when the command is       *)
(* dangerous, y in any letter case when it is not.  In every other step,   *)
(* and for every other answer, command_history stays as it is and nothing  *)
(* is run.                                                                 *)
(***************************************************************************)
Affirmative ==
  IF is_dangerous_command(shell_command)
  THEN Lower(answer) = <<"y","e","s">>
  ELSE Lower(answer) = <<"y">>

C3_RunOnlyAfterConsent ==
  [][ \/ /\ command_history' = command_history
         /\ exec_calls' = exec_calls
      \/ /\ pc = "answered"
         /\ Affirmative
         /\ command_history' = Append(command_history, shell_command)
         /\ exec_calls' = exec_calls + 1 ]_vars

\* A dangerous command was run.
C3_Witness ==
  /\ exec_calls = 1
  /\ Len(command_history) = 1
  /\ is_dangerous_command(command_history[1])

(***************************************************************************)
(* C4: for a non-sudo command the call is never still waiting for the      *)
(* child (reading a stream or waiting for the exit) with the child alive   *)
(* when more than command_timeout seconds have passed since the launch.    *)
(***************************************************************************)
C4_HardDeadline ==
  ~ /\ ~is_sudo_command
    /\ ex_pc \in {"reading_stdout", "reading_stderr", "select_loop", "wait"}
    /\ Alive(child)
    /\ elapsed > timeout

\* The call still reads stdout of a living child after the timeout.
C4_Witness ==
  /\ ~is_sudo_command /\ ex_pc = "reading_stdout"
  /\ child.state = "running" /\ child.out_open /\ elapsed > timeout

(***************************************************************************)
(* C5: when the command ran longer than the timeout and the call returns   *)
(* (not by an interrupt), the result is the timed-out one with a non-zero  *)
(* exit status and no process launched by the call is still running.       *)
(***************************************************************************)
C5_TimedOutAndNoChildLeft ==
  (ex_pc = "returned" /\ overran /\ path # "interrupted") =>
     /\ path = "timeout"
     /\ result.rc # 0
     /\ ~Alive(child)
     /\ orphan # "running"

\* A command that outlived the timeout came back as an ordinary success.
C5_Witness ==
  /\ ex_pc = "returned" /\ overran
  /\ path = "normal" /\ result.kind = "tuple" /\ result.rc = 0

(***************************************************************************)
(* C6: the call never reaches a state in which the parent is blocked       *)
(* reading one stream while the child is blocked writing to the other.     *)
(***************************************************************************)
C6_NoReadWriteDeadlock ==
  /\ ~(ex_pc = "reading_stdout" /\ out_pipe = <<>> /\ child.state = "blocked_err")
  /\ ~(ex_pc = "reading_stderr" /\ err_pipe = <<>> /\ child.state = "blocked_out")

\* The parent waits for stdout, the child for room in the stderr pipe, and
\* the time the model follows is used up.
C6_Witness ==
  /\ ex_pc = "reading_stdout" /\ out_pipe = <<>> /\ child.out_open
  /\ child.state = "blocked_err" /\ Len(err_pipe) = PipeCap
  /\ elapsed = MaxTime

(***************************************************************************)
(* C7: when the call returns its (stdout, stderr, exit code) result for a  *)
(* command that wrote lines and exited, the stdout returned is exactly the *)
(* lines written to stdout in write order and the stderr returned is       *)
(* exactly the lines written to stderr in write order.                     *)
(***************************************************************************)
C7_ReturnedEqualsWritten ==
  (ex_pc = "returned" /\ path = "normal") =>
     /\ result.out = written_out
     /\ result.err = written_err

\* A command that wrote to both streams has returned its result.
C7_Witness ==
  /\ ex_pc = "returned" /\ path = "normal"
  /\ Len(written_out) >= 1 /\ Len(written_err) >= 1
  /\ Len(written_out) + Len(written_err) >= MaxWrites

(***************************************************************************)
(* C8: when the call has returned, the advisor was called once if the      *)
(* execution ended with a non-zero exit status (the timed-out outcome      *)
(* included) and was not interrupted by the user, and not at all           *)
(* otherwise.                                                              *)
(***************************************************************************)
C8_AdvisorIffFailed ==
  ex_pc = "returned" =>
     advisor_calls = IF path # "interrupted" /\ result.rc # 0 THEN 1 ELSE 0

\* The call timed out and returned -1 without a call of the advisor.
C8_Witness ==
  /\ ex_pc = "returned" /\ path = "timeout"
  /\ result.rc = -1 /\ advisor_calls = 0

(***************************************************************************)
(* C9: when the call has returned on one of the outcomes normal            *)
(* completion, timeout, sudo passthrough or failure to launch, exactly one *)
(* entry was written to the execution log.                                 *)
(***************************************************************************)
C9_OneLogEntryPerCall ==
  (ex_pc = "returned" /\ path \in {"normal", "timeout", "sudo", "launch_error"}) =>
     Len(log_entries) = 1

\* The launch failed, or the call timed out, and the log is empty.
C9_Witness ==
  /\ ex_pc = "returned" /\ path \in {"timeout", "launch_error"}
  /\ log_entries = <<>>

(***************************************************************************)
(* C10: in every state of the session the conversation holds exactly one   *)
(* system entry, and it is the first entry.                                *)
(***************************************************************************)
C10_OneSystemEntryFirst ==
  /\ history # <<>>
  /\ history[1].role = "system"
  /\ Cardinality({i \in DOMAIN history : history[i].role = "system"}) = 1

\* With a cap of 1 a successful translation left two system entries.
C10_Witness ==
  /\ max_history_size = 1
  /\ Len(history) = 4
  /\ history[1].role = "system" /\ history[2].role = "system"

(***************************************************************************)
(* C11: whenever the main loop is back at its prompt, the conversation     *)
(* holds at most max_history_size entries.                                 *)
(***************************************************************************)
C11_HistoryWithinCap == pc = "prompt" => Len(history) <= max_history_size

\* Two translations refused for an invalid key left their user turns behind.
C11_Witness ==
  /\ pc = "prompt" /\ KeyInvalid(api_key)
  /\ Len(history) = 3 /\ max_history_size <= 2
  /\ history[2].role = "user" /\ history[3].role = "user"

(***************************************************************************)
(* C14: no outbound LLM call is dispatched in a session whose api_key is   *)
(* empty or shorter than 10 characters.                                    *)
(***************************************************************************)
C14_NoDispatchWithoutKey == dispatched > 0 => ~(api_key = "" \/ Len(api_key) < 10)

\* An explanation went out in a session without a key.
C14_Witness == api_key = "" /\ dispatched >= 1 /\ exec_calls = 0

(***************************************************************************)
(* C15 as claimed: at the return of every _check_rate_limit and every      *)
(* _record_request, with the limiter enabled or disabled, the timestamp    *)
(* list holds only timestamps less than 86400 seconds old.                 *)
(***************************************************************************)
C15_FreshAfterEveryOperation ==
  [][ (requests' # requests \/ check_ret' # "none") =>
        \A i \in 1..Len(requests') : now' - requests'[i] < 86400 ]_vars

(***************************************************************************)
(* C15 as amended: at the return of every _check_rate_limit made with the  *)
(* limiter enabled, the timestamp list holds only timestamps less than     *)
(* 86400 seconds old.                                                      *)
(***************************************************************************)
C15_FreshAfterEnabledCheck ==
  [][ (rate_limit_enabled /\ check_ret' # "none") =>
        \A i \in 1..Len(requests') : now' - requests'[i] < 86400 ]_vars

\* An enabled check has returned and a recorded timestamp is gone from the list.
C15_Witness ==
  /\ rate_limit_enabled /\ check_ret # "none"
  /\ requests # <<>> /\ Len(requests) < Len(recorded)

(***************************************************************************)
(* C16: while rate limiting is disabled _check_rate_limit returns True     *)
(* whatever the timestamp list holds and leaves the list as it is; a       *)
(* check made with the limiter enabled is refused whenever the timestamps  *)
(* still in the list, those recorded while it was disabled included, reach *)
(* a limit.                                                                *)
(***************************************************************************)
C16_DisabledCheckPassesUntouched ==
  [][ check_ret' # "none" =>
        IF ~rate_limit_enabled
        THEN check_ret' = "True" /\ requests' = requests
        ELSE (Len(requests') >= rpd => check_ret' = "False") ]_vars

\* A disabled check passed a list at its daily limit holding an expired
\* timestamp.
C16_Witness ==
  /\ ~rate_limit_enabled /\ check_ret = "True"
  /\ Len(requests) >= rpd
  /\ now - requests[1] >= 86400

(***************************************************************************)
(* C18: _clean_command is idempotent: cleaning the result of               *)
(* _clean_command again gives the same string.                             *)
(***************************************************************************)
C18_CleanIdempotent == call.op = "clean" => call.again = call.ret

\* An answer with two prefix labels loses one label per cleaning.
C18_Witness ==
  /\ call.op = "clean"
  /\ call.input = <<"$", " ", "$", " ", "l", "s">>
  /\ call.ret = <<"$", " ", "l", "s">>
  /\ call.again = <<"l", "s">>

(***************************************************************************)
(* C19: _simple_command_fallback returns a non-empty command for every     *)
(* input, the command of the first table entry in table order whose key is *)
(* a substring of the lower-cased input when there is one, and changes no  *)
(* session state.                                                          *)
(***************************************************************************)
C19_FallbackTotalFirstMatch ==
  [][ call'.op = "fallback" =>
        /\ call'.ret # ""
        /\ \A k \in 1..Len(command_map) :
             ( /\ Contains(Lower(call'.input), command_map[k][1])
               /\ \A m \in 1..(k - 1) : ~Contains(Lower(call'.input), command_map[m][1]) )
             => call'.ret = command_map[k][2]
        /\ UNCHANGED <<rlVars, mainVars, exVars, regVars>> ]_vars

\* An input that holds two table keys in upper and lower case got the command
\* of the earlier entry.
C19_Witness ==
  /\ call.op = "fallback"
  /\ call.input = <<"P", "W", "D", "l", "s">>
  /\ call.ret = "dir"

(***************************************************************************)
(* C20: _is_dangerous_command returns True for every command in which rm   *)
(* is followed by -rf and for every command containing shutdown, reboot or *)
(* poweroff, returns False for a command that holds the beginning of none  *)
(* of the nine signatures, and changes no session state.                   *)
(***************************************************************************)
RmThenRf(command) ==
  \E i \in 1..Len(command), j \in 1..Len(command) :
    /\ IsAt(command, <<"r", "m">>, i)
    /\ IsAt(command, <<"-", "r", "f">>, j)
    /\ j >= i + 2

HaltWord(command) ==
  \/ Contains(command, <<"s","h","u","t","d","o","w","n">>)
  \/ Contains(command, <<"r","e","b","o","o","t">>)
  \/ Contains(command, <<"p","o","w","e","r","o","f","f">>)

NoSignatureStart(command) ==
  /\ ~Contains(command, <<"r","m">>)
  /\ ~Contains(command, <<"m","k","f","s">>)
  /\ ~Contains(command, <<"d","d">>)
  /\ ~Contains(command, <<"c","h","m","o","d">>)
  /\ ~Contains(command, <<">">>)
  /\ ~Contains(command, <<"|","|">>)
  /\ ~HaltWord(command)

C20_DangerousClassified ==
  [][ call'.op = "dangerous" =>
        /\ (RmThenRf(call'.input) \/ HaltWord(call'.input)) => call'.ret = TRUE
        /\ NoSignatureStart(call'.input) => call'.ret = FALSE
        /\ UNCHANGED <<rlVars, mainVars, exVars, regVars>> ]_vars

\* rm -rf /tmp/x was classified dangerous.
C20_Witness ==
  /\ call.op = "dangerous"
  /\ call.input = <<"r","m"," ","-","r","f"," ","/","t","m","p","/","x">>
  /\ call.ret = TRUE

(***************************************************************************)
(* C12: when natural_language_to_shell dispatched its call and the call    *)
(* failed, it returns the command of _simple_command_fallback for the      *)
(* input; it returns None only when nothing was dispatched.                *)
(***************************************************************************)
C12_FallbackAfterFailedDispatch ==
  call.op = "translate" =>
     /\ (call.sent /\ call.net # "response") =>
           call.ret = simple_command_fallback(Strip(call.input))
     /\ call.ret = "None" => ~call.sent

\* The call was dispatched, the provider failed, None came back.
C12_Witness ==
  /\ call.op = "translate" /\ call.sent
  /\ call.net = "error" /\ call.ret = "None"

(***************************************************************************)
(* C13: with no api_key configured natural_language_to_shell returns the   *)
(* command of _simple_command_fallback for every non-empty input and       *)
(* dispatches no call.                                                     *)
(***************************************************************************)
C13_FallbackWithoutKey ==
  (call.op = "translate" /\ api_key = "" /\ Strip(call.input) # <<>>) =>
     /\ call.ret = simple_command_fallback(Strip(call.input))
     /\ ~call.sent

\* Without a key a request with text got None and its user turn stayed in
\* the conversation.
C13_Witness ==
  /\ call.op = "translate" /\ api_key = "" /\ libs = "all"
  /\ Strip(call.input) # <<>>
  /\ call.ret = "None" /\ ~call.sent
  /\ Len(history) = 2

(***************************************************************************)
(* C17: two _check_rate_limit calls in a row, with no _record_request and  *)
(* no clock advance in between, return the same answer, and the second     *)
(* leaves the timestamp list as the first left it.                         *)
(***************************************************************************)
C17_CheckIdempotent ==
  call.op = "check_twice" =>
     /\ call.second = call.first
     /\ call.kept_second = call.kept_first

\* The first of the two checks dropped an expired timestamp and passed.
C17_Witness ==
  /\ call.op = "check_twice"
  /\ call.first = "True"
  /\ Len(call.kept_first) < Len(recorded)


\* C21: the main loop ends only on a quit command or on end of input, and a
\* step that ran the translator, the executor with its advisor, or an
\* explanation never ends it, whatever the way the operation failed.
C21_ExitOnlyOnQuitOrEof ==
  [][ /\ (pc' = "exited" /\ pc # "exited" => call'.cause \in {"quit", "EOFError"})
      /\ (turns' # turns \/ exec_calls' # exec_calls => pc' # "exited") ]_vars

\* A translation whose request went out and brought no command back, with the
\* loop at its prompt again.
C21_Witness ==
  /\ pc = "prompt"
  /\ turns = 1
  /\ dispatched = 1
  /\ Len(history) = 2
  /\ history[2].role = "user"


\* The processes launched for the command by the call so far.
Launched ==
  (IF child # NoChild THEN 1 ELSE 0) + (IF orphan # "none" THEN 1 ELSE 0)

\* C22: a call with an ordinary command launches exactly one child process on
\* every platform: once the launch succeeded there is one process of the
\* command, and none besides the one whose output is read.
C22_OneChildPerCall ==
  (~is_sudo_command /\ child # NoChild) => (Launched = 1 /\ orphan = "none")

\* The call has returned on a non-Windows system and the process of the first
\* launch is still running.
C22_Witness ==
  /\ os_name = "posix"
  /\ ~is_sudo_command
  /\ ex_pc = "returned"
  /\ path = "normal"
  /\ orphan = "running"


\* C23: one natural_language_to_shell call checks the rate limit at most
\* twice, the second time only after a refusal and a wait of 2 seconds.  When
\* both checks refuse it returns None having recorded nothing and sent
\* nothing, after exactly that wait; when a check allows the request it
\* records exactly one timestamp, and a request that is sent was recorded
\* before it left.
C23_CheckRetriedOnce ==
  call.op = "translate" =>
    /\ call.checks <= 2
    /\ (call.checks = 2 => call.first = "False" /\ call.took >= RetryDelay)
    /\ ~(call.checks = 1 /\ call.first = "False")
    /\ (call.checks >= 1 /\ call.last = "False" =>
          /\ call.checks = 2
          /\ call.ret = "None"
          /\ call.stamps = <<>>
          /\ ~call.sent
          /\ call.took = RetryDelay)
    /\ (call.checks >= 1 /\ call.last = "True" =>
          /\ Len(call.stamps) = 1
          /\ call.stamps[1] + SafetyDelay <= now)

\* The first check refused, the second one, 2 seconds later, allowed the
\* request, and the request went out.
C23_Witness ==
  /\ call.op = "translate"
  /\ call.checks = 2
  /\ call.last = "True"
  /\ call.sent


\* C24: natural_language_to_shell and _get_error_solution_from_llm send a
\* request only when a _check_rate_limit call of that same call returned
\* True; an advisor call whose check refused sends nothing, records nothing
\* and takes no time.
C24_NoDispatchWithoutCheck ==
  /\ (call.op \in {"translate", "advise"} /\ call.sent) =>
        (call.checks >= 1 /\ call.last = "True")
  /\ (call.op = "advise" /\ call.last = "False") =>
        (call.checks = 1 /\ ~call.sent /\ call.stamps = <<>> /\ call.took = 0)

\* The advisor was called with the budget used up and came back at once.
C24_Witness ==
  /\ call.op = "advise"
  /\ call.last = "False"
  /\ Len(recorded) >= 1
  /\ ~call.sent


\* C25: whatever the conversation holds, a request natural_language_to_shell
\* sends carries exactly two messages: a system message (the first system
\* entry of the conversation, or the default one when it holds none) and
\* then the user turn of the current request; no earlier turn is sent.
C25_TwoMessagePayload ==
  (call.op = "translate" /\ call.sent) =>
    /\ Len(call.messages) = 2
    /\ call.messages[1] \in {SystemPrompt, DefaultSystemPrompt}
    /\ call.messages[2] = [role |-> "user", content |-> Strip(call.input)]

\* A request went out from a conversation that already held an earlier user
\* turn and an assistant turn.
C25_Witness ==
  /\ call.op = "translate"
  /\ call.sent
  /\ call.ret # "None"
  /\ Len(WithRole(history, "user")) >= 2
  /\ Len(WithRole(history, "assistant")) >= 2


\* C26: each line the child writes is read and echoed as it arrives, each
\* stream on its own: the parent never sits waiting for the child while a
\* line written to either stream is still unread.
C26_EchoedAsItArrives ==
  ParentBlocked => (out_pipe = <<>> /\ err_pipe = <<>>)

\* The child wrote a line to stderr and keeps running with its stdout open;
\* time has passed and the line has not been read.
C26_Witness ==
  /\ ex_pc = "reading_stdout"
  /\ child.state = "running" /\ child.out_open
  /\ out_pipe = <<>>
  /\ written_err # <<>>
  /\ stderr_lines = <<>>
  /\ elapsed >= 1


RECURSIVE FirstNonEmpty(_)
FirstNonEmpty(sources) ==
  IF sources = <<>> THEN ""
  ELSE IF Head(sources) # "" THEN Head(sources)
  ELSE FirstNonEmpty(Tail(sources))

\* The sources of a key for a model of the registry, in the order of the claim,
\* up to the single-key file.
StoredSources(name) ==
  LET model_config == model_providers[name]
  IN << environ[model_config.api_key_env],
        config.api_keys[model_config.provider],
        config.api_keys[model_config.api_key_env],
        key_file >>

\* C28: after a model was selected, the active key is the first non-empty one
\* of: the environment variable of the provider, config api_keys[provider],
\* config api_keys[api_key_env], the single-key file; the user is asked only
\* when all of these are empty; and the Authorization header carries the key.
C28_KeyFromFirstSource ==
  (call.op \in {"model", "set_current_model"} /\ call.ret) =>
    /\ (FirstNonEmpty(StoredSources(call.name)) # "" =>
          api_key = FirstNonEmpty(StoredSources(call.name)) /\ ~call.prompted)
    /\ (FirstNonEmpty(StoredSources(call.name)) = "" => call.prompted)
    /\ authorization = Header(api_key)

\* A model was selected with a key in the single-key file and nowhere before
\* it: the session has no key and the user was not asked.
C28_Witness ==
  /\ call.op = "model" /\ call.ret
  /\ key_file # ""
  /\ api_key = ""
  /\ authorization = <<>>
  /\ ~call.prompted

\* C29: selecting a name that is not in the registry, by set_model or by
\* _set_current_model, returns False and leaves the model, the URL, the key,
\* the Authorization header, the configuration and its file as they were.
C29_UnknownModelChangesNothing ==
  [][ (call'.op \in {"model", "set_current_model"}
       /\ call'.name \notin DOMAIN model_providers) =>
        /\ call'.ret = FALSE
        /\ UNCHANGED <<model, api_base_url, api_key, authorization, config,
                       saved_config>> ]_vars

\* gpt-4 was refused while a model of the ECNU provider was current.
C29_Witness ==
  /\ call.op \in {"model", "set_current_model"}
  /\ call.name = "gpt-4"
  /\ call.ret = FALSE
  /\ model = "ecnu-plus"

\* C30: while the main loop runs, self.model is a key of model_providers and
\* api_base_url and api_key are the ones a selection of that model yields.
C30_ModelInRegistry ==
  pc = "prompt" =>
    /\ model \in DOMAIN model_providers
    /\ api_base_url = model_providers[model].api_base_url
    /\ api_key = set_current_model(Session, model, config, environ).s.api_key

\* config model gpt-4 made a name outside the registry the current model.
C30_Witness ==
  /\ pc = "prompt"
  /\ call.op = "config"
  /\ model = "gpt-4"
  /\ model \notin DOMAIN model_providers

====
